---- MODULE Spec2Model ----
(***************************************************************************)
(* HTLC escrow contract (contracts/stellar/src/lib.rs): the persistent    *)
(* store of Escrow records, the token balances the contract moves, the    *)
(* ledger clock, and one action per contract entry point.  Every entry    *)
(* point runs as one host transaction: a result of Err leaves storage     *)
(* and balances as they were, and so does a trap raised inside the token  *)
(* contract's transfer (the host rolls the whole invocation back).        *)
(***************************************************************************)
EXTENDS Integers, FiniteSets, Sequences, TLC

(* ---------------------------- bounds ---------------------------------- *)
MaxTime == 2        \* the ledger timestamp ranges over 0..MaxTime
MaxAmount == 1      \* amounts passed to create_escrow range over -1..MaxAmount
MaxCreates == 2     \* number of create_escrow calls that store a record

(* --------------------------- input sets ------------------------------- *)
LEDGER == "ledger"                      \* env.current_contract_address()
Address == {"alice", "bob", LEDGER}
Tokens == {"usdc"}               \* token contracts
Strings == {"a", "b"}                   \* order ids and secrets
Bytes == {"ha", "hb"}                   \* 32-byte digests
Times == 0..MaxTime
Timelocks == 0..MaxTime
Amounts == (-1)..MaxAmount
Procs == {"p1", "p2"}                   \* invocations that may be in progress

\* env.crypto().keccak256 over the strings of the model: collision free.
keccak256(s) == IF s = "a" THEN "ha" ELSE "hb"

VARIABLES
    store,      \* env.storage().persistent(): escrow_id -> Escrow, partial
    balance,    \* balance[t][a]: token contract t's balance of address a
    now,        \* env.ledger().timestamp()
    call,       \* the last invocation: entry point and what it returned
    creates,    \* number of records stored so far by create_escrow
    everWithdrawn,  \* ids on which some withdraw returned Ok
    everCancelled,  \* ids on which some cancel returned Ok
    inv,        \* inv[p]: how far invocation p of withdraw or cancel has got
    payouts,    \* payouts[id]: outbound transfers made for the record at id
    interleave  \* whether invocations may interleave their statements

\* the variables of the statement-level view of withdraw and cancel; the
\* entry points taken as whole transactions leave them alone
steps == <<inv, payouts, interleave>>

vars == <<store, balance, now, call, creates, everWithdrawn, everCancelled, inv, payouts, interleave>>

(* ------------------------- token contract ----------------------------- *)
\* token::Client::balance
TokenBalance(bal, a) == bal[a]

\* token::Client::transfer goes through iff the amount is not negative and
\* the source holds it; otherwise the token contract traps.
CanTransfer(bal, from, to, amount) == amount >= 0 /\ bal[from] >= amount

TokenTransfer(bal, from, to, amount) ==
    LET debited == [bal EXCEPT ![from] = @ - amount]
    IN  [debited EXCEPT ![to] = @ + amount]

(* ----------------------------- records -------------------------------- *)
Escrow(sender, receiver, amount, secret_hash, timelock, token_address, order_id, withdrawn, cancelled, created_at) ==
    [sender |-> sender, receiver |-> receiver, amount |-> amount,
     secret_hash |-> secret_hash, timelock |-> timelock,
     token_address |-> token_address, order_id |-> order_id,
     withdrawn |-> withdrawn, cancelled |-> cancelled,
     created_at |-> created_at]

\* env.storage().persistent().set(&escrow_id, &escrow)
StorageSet(st, escrow_id, escrow) ==
    [k \in (DOMAIN st) \cup {escrow_id} |->
        IF k = escrow_id THEN escrow ELSE st[k]]

\* env.storage().persistent().get(&escrow_id) is Some
StorageHas(st, escrow_id) == escrow_id \in DOMAIN st

(* --------------------------- create_escrow ---------------------------- *)
\* create_escrow with the timelock test written "<": a timelock equal to the
\* current time is let through.
CreateResultLaxTimelock(sender, amount, timelock, token_address) ==
    IF timelock < now THEN "InvalidTimelock"
    ELSE IF TokenBalance(balance[token_address], sender) < amount
         THEN "InsufficientBalance"
    ELSE IF ~CanTransfer(balance[token_address], sender, LEDGER, amount)
         THEN "Trap"
    ELSE "Ok"

\* create_escrow without the test of the sender's balance: the transfer is
\* attempted straight after the timelock test.
CreateResultNoBalanceCheck(sender, amount, timelock, token_address) ==
    IF timelock <= now THEN "InvalidTimelock"
    ELSE IF ~CanTransfer(balance[token_address], sender, LEDGER, amount)
         THEN "Trap"
    ELSE "Ok"

\* The checks of create_escrow in program order; "Trap" is the token
\* contract refusing the transfer, which aborts the invocation.
CreateResult(sender, amount, timelock, token_address) ==
    IF timelock <= now THEN "InvalidTimelock"
    ELSE IF TokenBalance(balance[token_address], sender) < amount
         THEN "InsufficientBalance"
    ELSE IF ~CanTransfer(balance[token_address], sender, LEDGER, amount)
         THEN "Trap"
    ELSE "Ok"

create_escrow(sender, receiver, amount, secret_hash, timelock, token_address, order_id) ==
    LET current_time == now
        escrow_id == keccak256(order_id)
        result == CreateResult(sender, amount, timelock, token_address)
        escrow == Escrow(sender, receiver, amount, secret_hash, timelock,
                         token_address, order_id, FALSE, FALSE, current_time)
    IN  /\ creates < MaxCreates
        /\ call' = [op |-> "create_escrow",
                    result |-> IF result = "Ok" THEN escrow_id ELSE result]
        /\ IF result = "Ok"
           THEN /\ balance' = [balance EXCEPT ![token_address] =
                                 TokenTransfer(@, sender, LEDGER, amount)]
                /\ store' = StorageSet(store, escrow_id, escrow)
                /\ creates' = creates + 1
           ELSE UNCHANGED <<balance, store, creates>>
        /\ UNCHANGED <<now, everWithdrawn, everCancelled>>

(* ------------------------------ withdraw ------------------------------ *)
\* withdraw without the test of the cancelled flag.
WithdrawResultNoCancelledCheck(escrow_id, secret, receiver) ==
    IF ~StorageHas(store, escrow_id) THEN "EscrowNotFound"
    ELSE LET escrow == store[escrow_id] IN
         IF escrow.withdrawn THEN "AlreadyWithdrawn"
         ELSE IF keccak256(secret) # escrow.secret_hash THEN "InvalidSecret"
         ELSE IF receiver # escrow.receiver THEN "UnauthorizedAccess"
         ELSE IF ~CanTransfer(balance[escrow.token_address], LEDGER,
                              receiver, escrow.amount)
              THEN "Trap"
         ELSE "Ok"

\* withdraw without the test of the withdrawn flag.
WithdrawResultNoWithdrawnCheck(escrow_id, secret, receiver) ==
    IF ~StorageHas(store, escrow_id) THEN "EscrowNotFound"
    ELSE LET escrow == store[escrow_id] IN
         IF escrow.cancelled THEN "AlreadyCancelled"
         ELSE IF keccak256(secret) # escrow.secret_hash THEN "InvalidSecret"
         ELSE IF receiver # escrow.receiver THEN "UnauthorizedAccess"
         ELSE IF ~CanTransfer(balance[escrow.token_address], LEDGER,
                              receiver, escrow.amount)
              THEN "Trap"
         ELSE "Ok"

WithdrawResult(escrow_id, secret, receiver) ==
    IF ~StorageHas(store, escrow_id) THEN "EscrowNotFound"
    ELSE LET escrow == store[escrow_id] IN
         IF escrow.withdrawn THEN "AlreadyWithdrawn"
         ELSE IF escrow.cancelled THEN "AlreadyCancelled"
         ELSE IF keccak256(secret) # escrow.secret_hash THEN "InvalidSecret"
         ELSE IF receiver # escrow.receiver THEN "UnauthorizedAccess"
         ELSE IF ~CanTransfer(balance[escrow.token_address], LEDGER,
                              receiver, escrow.amount)
              THEN "Trap"
         ELSE "Ok"

\* withdraw that sets and stores the flag before the receiver test, so that
\* a call refused with UnauthorizedAccess has already marked the record.
withdrawMarksBeforeReceiverCheck(escrow_id, secret, receiver) ==
    LET result == WithdrawResult(escrow_id, secret, receiver) IN
    /\ call' = [op |-> "withdraw", result |-> result]
    /\ IF result \in {"Ok", "UnauthorizedAccess"}
       THEN LET escrow == [store[escrow_id] EXCEPT !.withdrawn = TRUE] IN
            /\ store' = StorageSet(store, escrow_id, escrow)
            /\ IF result = "Ok"
               THEN /\ balance' = [balance EXCEPT ![escrow.token_address] =
                              TokenTransfer(@, LEDGER, receiver, escrow.amount)]
                    /\ everWithdrawn' = everWithdrawn \cup {escrow_id}
               ELSE UNCHANGED <<balance, everWithdrawn>>
       ELSE UNCHANGED <<store, balance, everWithdrawn>>
    /\ UNCHANGED <<now, creates, everCancelled>>

withdraw(escrow_id, secret, receiver) ==
    LET result == WithdrawResult(escrow_id, secret, receiver) IN
    /\ call' = [op |-> "withdraw", result |-> result]
    /\ IF result = "Ok"
       THEN LET escrow == [store[escrow_id] EXCEPT !.withdrawn = TRUE] IN
            /\ store' = StorageSet(store, escrow_id, escrow)
            /\ balance' = [balance EXCEPT ![escrow.token_address] =
                             TokenTransfer(@, LEDGER, receiver, escrow.amount)]
            /\ everWithdrawn' = everWithdrawn \cup {escrow_id}
       ELSE UNCHANGED <<store, balance, everWithdrawn>>
    /\ UNCHANGED <<now, creates, everCancelled>>

(* ------------------------------- cancel ------------------------------- *)
CancelResult(escrow_id, sender) ==
    IF ~StorageHas(store, escrow_id) THEN "EscrowNotFound"
    ELSE LET escrow == store[escrow_id] IN
         IF escrow.withdrawn THEN "AlreadyWithdrawn"
         ELSE IF escrow.cancelled THEN "AlreadyCancelled"
         ELSE IF now < escrow.timelock THEN "TimelockNotExpired"
         ELSE IF sender # escrow.sender THEN "UnauthorizedAccess"
         ELSE IF ~CanTransfer(balance[escrow.token_address], LEDGER,
                              sender, escrow.amount)
              THEN "Trap"
         ELSE "Ok"

cancel(escrow_id, sender) ==
    LET result == CancelResult(escrow_id, sender) IN
    /\ call' = [op |-> "cancel", result |-> result]
    /\ IF result = "Ok"
       THEN LET escrow == [store[escrow_id] EXCEPT !.cancelled = TRUE] IN
            /\ store' = StorageSet(store, escrow_id, escrow)
            /\ balance' = [balance EXCEPT ![escrow.token_address] =
                             TokenTransfer(@, LEDGER, sender, escrow.amount)]
            /\ everCancelled' = everCancelled \cup {escrow_id}
       ELSE UNCHANGED <<store, balance, everCancelled>>
    /\ UNCHANGED <<now, creates, everWithdrawn>>

(* ------------------------- read-only entry points --------------------- *)
\* get_escrow: Some(escrow) is the one-element set, None the empty set
get_escrow(escrow_id) ==
    IF StorageHas(store, escrow_id) THEN {store[escrow_id]} ELSE {}

\* verify_secret that answers false for a record that is already resolved
verify_secretOnlyOpen(escrow_id, secret) ==
    IF get_escrow(escrow_id) # {}
    THEN LET escrow == CHOOSE e \in get_escrow(escrow_id) : TRUE
         IN  /\ keccak256(secret) = escrow.secret_hash
             /\ ~escrow.withdrawn /\ ~escrow.cancelled
    ELSE FALSE

verify_secret(escrow_id, secret) ==
    IF get_escrow(escrow_id) # {}
    THEN LET escrow == CHOOSE e \in get_escrow(escrow_id) : TRUE
         IN  keccak256(secret) = escrow.secret_hash
    ELSE FALSE

can_cancel(escrow_id) ==
    IF get_escrow(escrow_id) # {}
    THEN LET escrow == CHOOSE e \in get_escrow(escrow_id) : TRUE
             current_time == now
         IN  ~escrow.withdrawn /\ ~escrow.cancelled
             /\ current_time >= escrow.timelock
    ELSE FALSE

Query(op, escrow_id, result) ==
    /\ call' = [op |-> op, result |-> result]
    /\ UNCHANGED <<store, balance, now, creates, everWithdrawn, everCancelled>>
    /\ UNCHANGED steps

GetEscrowCall(escrow_id) ==
    Query("get_escrow", escrow_id,
          IF get_escrow(escrow_id) = {} THEN "None" ELSE "Some")

VerifySecretCall(escrow_id, secret) ==
    Query("verify_secret", escrow_id,
          IF verify_secret(escrow_id, secret) THEN "true" ELSE "false")

CanCancelCall(escrow_id) ==
    Query("can_cancel", escrow_id,
          IF can_cancel(escrow_id) THEN "true" ELSE "false")

(* ------------------------------- clock -------------------------------- *)
\* the ledger closes and the timestamp moves on
Tick ==
    /\ now < MaxTime
    /\ now' = now + 1
    /\ UNCHANGED <<store, balance, call, creates, everWithdrawn, everCancelled>>
    /\ UNCHANGED steps

(* --------------------------- specification ---------------------------- *)
\* no invocation in progress
Idle == [pc |-> "idle", op |-> "-", id |-> "-", caller |-> "-", escrow |-> {}]

Init ==
    /\ inv = [p \in Procs |-> Idle]
    /\ payouts = [id \in Bytes |-> 0]
    /\ interleave = FALSE
    /\ store = <<>>
    /\ balance = [t \in Tokens |->
                    [a \in Address |-> IF a = "alice" THEN 2 ELSE 0]]
    /\ now = 0
    /\ call = [op |-> "none", result |-> "-"]
    /\ creates = 0
    /\ everWithdrawn = {}
    /\ everCancelled = {}

CreateEscrowCall ==
    \E sender \in Address, receiver \in Address, amount \in Amounts,
       secret_hash \in Bytes, timelock \in Timelocks,
       token_address \in Tokens, order_id \in Strings :
        /\ create_escrow(sender, receiver, amount, secret_hash, timelock,
                         token_address, order_id)
        /\ UNCHANGED steps

WithdrawCall ==
    \E escrow_id \in Bytes, secret \in Strings, receiver \in Address :
        withdraw(escrow_id, secret, receiver) /\ UNCHANGED steps

CancelCall ==
    \E escrow_id \in Bytes, sender \in Address :
        cancel(escrow_id, sender) /\ UNCHANGED steps

GetEscrow == \E escrow_id \in Bytes : GetEscrowCall(escrow_id)

VerifySecret ==
    \E escrow_id \in Bytes, secret \in Strings :
        VerifySecretCall(escrow_id, secret)

CanCancel == \E escrow_id \in Bytes : CanCancelCall(escrow_id)

Next ==
    \/ CreateEscrowCall
    \/ WithdrawCall
    \/ CancelCall
    \/ GetEscrow
    \/ VerifySecret
    \/ CanCancel
    \/ Tick

Spec == Init /\ [][Next]_vars

(* ------------------------------ helpers ------------------------------- *)
Status(escrow) ==
    IF escrow.withdrawn THEN "Withdrawn"
    ELSE IF escrow.cancelled THEN "Cancelled"
    ELSE "Open"

Unresolved(escrow) == ~escrow.withdrawn /\ ~escrow.cancelled

\* the fields of a record that are fixed at creation
Terms(escrow) ==
    <<escrow.amount, escrow.secret_hash, escrow.timelock, escrow.sender,
      escrow.receiver, escrow.token_address, escrow.order_id>>

RECURSIVE LockedIn(_, _)
\* sum of amount over the unresolved records of token t stored under ids
LockedIn(ids, t) ==
    IF ids = {} THEN 0
    ELSE LET id == CHOOSE x \in ids : TRUE
             e == store[id]
         IN  (IF e.token_address = t /\ Unresolved(e) THEN e.amount ELSE 0)
             + LockedIn(ids \ {id}, t)

(* ------------------------------- claims ------------------------------- *)

\* C1: no stored escrow record has withdrawn = true and cancelled = true at
\* the same time, in any state reachable by create_escrow, withdraw, cancel
\* and clock advances.
C1_FlagsExclusive ==
    \A id \in DOMAIN store : ~(store[id].withdrawn /\ store[id].cancelled)

\* a withdraw and a cancel have both succeeded: one record is withdrawn and
\* another one is cancelled
C1_Witness ==
    /\ \E id \in DOMAIN store : store[id].withdrawn
    /\ \E id \in DOMAIN store : store[id].cancelled
    /\ everWithdrawn # {} /\ everCancelled # {}

\* C2: withdrawn and cancelled are terminal: a flag that is true for an
\* identifier stays true for it in every later state, and a record only
\* moves Open -> Withdrawn or Open -> Cancelled.
C2_FlagsTerminal ==
    [][\A id \in DOMAIN store :
          /\ id \in DOMAIN store'
          /\ store[id].withdrawn => store'[id].withdrawn
          /\ store[id].cancelled => store'[id].cancelled
          /\ Status(store[id]) # Status(store'[id])
               => /\ Status(store[id]) = "Open"
                  /\ Status(store'[id]) \in {"Withdrawn", "Cancelled"}]_vars

\* C3: at most one of withdraw and cancel ever succeeds on an identifier:
\* once a withdraw has succeeded on it every withdraw and cancel on it
\* returns AlreadyWithdrawn, and once a cancel has succeeded on it every
\* withdraw and cancel on it returns AlreadyCancelled.
C3_OneResolution ==
    \A id \in Bytes :
        /\ ~(id \in everWithdrawn /\ id \in everCancelled)
        /\ id \in everWithdrawn =>
             /\ \A secret \in Strings, receiver \in Address :
                    WithdrawResult(id, secret, receiver) = "AlreadyWithdrawn"
             /\ \A sender \in Address :
                    CancelResult(id, sender) = "AlreadyWithdrawn"
        /\ id \in everCancelled =>
             /\ \A secret \in Strings, receiver \in Address :
                    WithdrawResult(id, secret, receiver) = "AlreadyCancelled"
             /\ \A sender \in Address :
                    CancelResult(id, sender) = "AlreadyCancelled"

\* C4: once a record exists under an identifier its amount, secret_hash,
\* timelock, sender, receiver, token_address and order_id never change.
C4_TermsImmutable ==
    [][\A id \in DOMAIN store :
          id \in DOMAIN store' /\ Terms(store'[id]) = Terms(store[id])]_vars

\* C5: the contract's own balance of each token equals the sum of amount
\* over the stored records of that token that are neither withdrawn nor
\* cancelled.
C5_CustodyEqualsLocked ==
    \A t \in Tokens : balance[t][LEDGER] = LockedIn(DOMAIN store, t)

\* C6: create_escrow returns InvalidTimelock exactly when timelock <= now
\* (whatever the sender's balance), and every stored record has
\* timelock > created_at.
C6_InvalidTimelock ==
    /\ \A sender \in Address, amount \in Amounts, timelock \in Timelocks,
          token_address \in Tokens :
           (CreateResult(sender, amount, timelock, token_address)
                = "InvalidTimelock") <=> (timelock <= now)
    /\ \A id \in DOMAIN store : store[id].timelock > store[id].created_at

\* create_escrow has just refused a timelock at a time later than 0, with
\* a record created at that same time in the store
C6_Witness ==
    /\ call = [op |-> "create_escrow", result |-> "InvalidTimelock"]
    /\ now > 0
    /\ \E id \in DOMAIN store : store[id].created_at = now

\* C7: on an existing unresolved record withdraw succeeds exactly when
\* hash(secret) equals the stored secret_hash and the claimed receiver is
\* the stored receiver; a wrong secret gives InvalidSecret whatever the
\* receiver, a right secret with a wrong receiver gives UnauthorizedAccess,
\* and existence, withdrawn and cancelled are tested first, in that order.
C7_WithdrawOutcome ==
    \A id \in Bytes, secret \in Strings, receiver \in Address :
        LET result == WithdrawResult(id, secret, receiver) IN
        IF id \notin DOMAIN store THEN result = "EscrowNotFound"
        ELSE IF store[id].withdrawn THEN result = "AlreadyWithdrawn"
        ELSE IF store[id].cancelled THEN result = "AlreadyCancelled"
        ELSE LET secretOk == keccak256(secret) = store[id].secret_hash
                 receiverOk == receiver = store[id].receiver
             IN  /\ (result = "Ok") <=> (secretOk /\ receiverOk)
                 /\ ~secretOk => result = "InvalidSecret"
                 /\ (secretOk /\ ~receiverOk) => result = "UnauthorizedAccess"

\* C8: on an existing unresolved record cancel succeeds exactly when
\* now >= timelock and the claimed sender is the stored sender; before the
\* deadline the result is TimelockNotExpired whatever the sender, and from
\* the deadline on a wrong sender gets UnauthorizedAccess.
C8_CancelOutcome ==
    \A id \in DOMAIN store, sender \in Address :
        Unresolved(store[id]) =>
            LET result == CancelResult(id, sender)
                expired == now >= store[id].timelock
                senderOk == sender = store[id].sender
            IN  /\ (result = "Ok") <=> (expired /\ senderOk)
                /\ ~expired => result = "TimelockNotExpired"
                /\ (expired /\ ~senderOk) => result = "UnauthorizedAccess"

\* C9: can_cancel(id) is false for an absent identifier and otherwise true
\* exactly when cancel(id, s) by the record's sender s would succeed; and
\* once can_cancel(id) is true it stays true until the record under id is
\* withdrawn or cancelled, whatever other calls happen in between.
C9_CanCancelMatchesCancel ==
    \A id \in Bytes :
        IF id \notin DOMAIN store THEN ~can_cancel(id)
        ELSE can_cancel(id) <=> (CancelResult(id, store[id].sender) = "Ok")

C9_CanCancelStaysTrue ==
    \A id \in Bytes :
        (can_cancel(id) /\ ~can_cancel(id)')
            => /\ id \in DOMAIN store'
               /\ Status(store'[id]) # "Open"
               /\ call'.op \in {"withdraw", "cancel"}
               /\ call'.result = "Ok"

C9_CanCancel ==
    /\ [](C9_CanCancelMatchesCancel)
    /\ [][now' >= now /\ C9_CanCancelStaysTrue]_vars

\* C10: every record stored by create_escrow has amount > 0.
C10_AmountPositive ==
    \A id \in DOMAIN store : store[id].amount > 0

\* C11: a create_escrow with a valid timelock and a sender whose balance of
\* token_address is below amount returns InsufficientBalance, and a
\* create_escrow that returns InsufficientBalance creates or alters no
\* record and changes no balance.
C11_Underfunded ==
    \A sender \in Address, amount \in Amounts, timelock \in Timelocks,
       token_address \in Tokens :
        (timelock > now /\ balance[token_address][sender] < amount)
            => CreateResult(sender, amount, timelock, token_address)
                   = "InsufficientBalance"

C11_NoEffect ==
    (call'.op = "create_escrow" /\ call'.result = "InsufficientBalance")
        => UNCHANGED <<store, balance>>

C11_InsufficientBalance ==
    /\ [](C11_Underfunded)
    /\ [][C11_NoEffect]_vars

\* create_escrow has just returned InsufficientBalance while an unresolved
\* record is in the store and the contract holds its amount
C11_Witness ==
    /\ call = [op |-> "create_escrow", result |-> "InsufficientBalance"]
    /\ \E id \in DOMAIN store :
           /\ Unresolved(store[id])
           /\ store[id].amount > 0
           /\ balance[store[id].token_address][LEDGER] >= store[id].amount

\* C12: every successful create_escrow returns keccak256(order_id), lowers
\* the sender's balance and raises the contract's balance of token_address
\* by exactly amount, and leaves under the returned identifier a record
\* equal to the arguments with withdrawn = cancelled = false and
\* created_at = the time of the call.
C12_CreateStep ==
    (call'.op = "create_escrow" /\ call'.result \in Bytes) =>
        \A sender \in Address, receiver \in Address, amount \in Amounts,
           secret_hash \in Bytes, timelock \in Timelocks,
           token_address \in Tokens, order_id \in Strings :
            ( /\ CreateResult(sender, amount, timelock, token_address) = "Ok"
              /\ create_escrow(sender, receiver, amount, secret_hash,
                               timelock, token_address, order_id) )
            => /\ call'.result = keccak256(order_id)
               /\ balance'[token_address][sender]
                      = balance[token_address][sender] - amount
               /\ balance'[token_address][LEDGER]
                      = balance[token_address][LEDGER] + amount
               /\ call'.result \in DOMAIN store'
               /\ store'[call'.result] =
                      [sender |-> sender, receiver |-> receiver,
                       amount |-> amount, secret_hash |-> secret_hash,
                       timelock |-> timelock,
                       token_address |-> token_address,
                       order_id |-> order_id, withdrawn |-> FALSE,
                       cancelled |-> FALSE, created_at |-> now]

C12_CreateEffect == [][C12_CreateStep]_vars

\* C13: a successful withdraw moves exactly the record's amount from the
\* contract's balance to the receiver and a successful cancel moves it to
\* the sender, no other balance and no other record changes; a withdrawn
\* record makes every cancel return AlreadyWithdrawn and a cancelled one
\* makes every withdraw return AlreadyCancelled.
Moved(t, from, to, amount) ==
    /\ balance'[t][from] = balance[t][from] - amount
    /\ balance'[t][to] = balance[t][to] + amount
    /\ \A a \in Address \ {from, to} : balance'[t][a] = balance[t][a]
    /\ \A u \in Tokens \ {t} : balance'[u] = balance[u]

OthersKept(id) ==
    /\ DOMAIN store' = DOMAIN store
    /\ \A k \in DOMAIN store \ {id} : store'[k] = store[k]
    /\ Terms(store'[id]) = Terms(store[id])

C13_WithdrawStep ==
    (call'.op = "withdraw" /\ call'.result = "Ok") =>
        \A id \in Bytes, secret \in Strings, receiver \in Address :
            ( /\ WithdrawResult(id, secret, receiver) = "Ok"
              /\ withdraw(id, secret, receiver) )
            => /\ Moved(store[id].token_address, LEDGER, receiver,
                        store[id].amount)
               /\ OthersKept(id)

C13_CancelStep ==
    (call'.op = "cancel" /\ call'.result = "Ok") =>
        \A id \in Bytes, sender \in Address :
            (CancelResult(id, sender) = "Ok" /\ cancel(id, sender))
            => /\ Moved(store[id].token_address, LEDGER, sender,
                        store[id].amount)
               /\ OthersKept(id)

C13_AfterResolution ==
    \A id \in DOMAIN store :
        /\ store[id].withdrawn =>
               \A sender \in Address :
                   CancelResult(id, sender) = "AlreadyWithdrawn"
        /\ store[id].cancelled =>
               \A secret \in Strings, receiver \in Address :
                   WithdrawResult(id, secret, receiver) = "AlreadyCancelled"

C13_ResolutionEffect ==
    /\ [](C13_AfterResolution)
    /\ [][C13_WithdrawStep /\ C13_CancelStep]_vars

\* C14: a withdraw or cancel call ends in success, in exactly one error of
\* the closed set, or in an abort of the invocation, never in partial
\* success: whenever it does not succeed the record store and all balances
\* are exactly as they were before the call.
WithdrawErrors ==
    {"EscrowNotFound", "AlreadyWithdrawn", "AlreadyCancelled",
     "InvalidSecret", "UnauthorizedAccess"}

CancelErrors ==
    {"EscrowNotFound", "AlreadyWithdrawn", "AlreadyCancelled",
     "TimelockNotExpired", "UnauthorizedAccess"}

C14_Outcomes ==
    /\ \A id \in Bytes, secret \in Strings, receiver \in Address :
           WithdrawResult(id, secret, receiver)
               \in {"Ok", "Trap"} \cup WithdrawErrors
    /\ \A id \in Bytes, sender \in Address :
           CancelResult(id, sender) \in {"Ok", "Trap"} \cup CancelErrors

C14_FailureStep ==
    (call'.op \in {"withdraw", "cancel"} /\ call'.result # "Ok")
        => UNCHANGED <<store, balance>>

RECURSIVE LockedOf(_, _, _)
\* sum of amount over the unresolved records of token t in record store s
LockedOf(s, ids, t) ==
    IF ids = {} THEN 0
    ELSE LET id == CHOOSE x \in ids : TRUE
             e == s[id]
         IN  (IF e.token_address = t /\ Unresolved(e) THEN e.amount ELSE 0)
             + LockedOf(s, ids \ {id}, t)

C15_Accepted ==
    \A sender \in Address, amount \in Amounts, timelock \in Timelocks, token_address \in Tokens, order_id \in Strings :
        ( /\ StorageHas(store, keccak256(order_id))
          /\ timelock > now
          /\ amount >= 0
          /\ balance[token_address][sender] >= amount )
            => CreateResult(sender, amount, timelock, token_address) = "Ok"

C15_OverwriteStep ==
    (call'.op = "create_escrow" /\ call'.result \in DOMAIN store) =>
        LET id == call'.result
            old == store[id]
            new == store'[id]
            t == new.token_address
            stranded == IF Unresolved(old) /\ old.token_address = t THEN old.amount ELSE 0
        IN  /\ ~new.withdrawn /\ ~new.cancelled
            /\ new.created_at = now
            /\ balance'[t][LEDGER] = balance[t][LEDGER] + new.amount
            /\ balance'[t][LEDGER] - LockedOf(store', DOMAIN store', t)
                   = balance[t][LEDGER] - LockedOf(store, DOMAIN store, t) + stranded

C15_StrandedStep ==
    (call'.op \in {"withdraw", "cancel"} /\ call'.result = "Ok") =>
        \A t \in Tokens :
            balance'[t][LEDGER] - LockedOf(store', DOMAIN store', t)
                >= balance[t][LEDGER] - LockedOf(store, DOMAIN store, t)

C15_Overwrite ==
    /\ [](C15_Accepted)
    /\ [][C15_OverwriteStep /\ C15_StrandedStep]_vars

\* the parts of C15 taken one at a time
C15_OverwriteOnly == [][C15_OverwriteStep]_vars

C15_StrandedOnly == [][C15_StrandedStep]_vars

\* C18: withdraw has no deadline check: on an unresolved record a withdraw
\* with the right secret by the stored receiver succeeds at every clock
\* value, also at and after timelock; from timelock on a cancel by the
\* stored sender succeeds as well, and once one of the two has resolved the
\* record the other fails.
C18_WithdrawAnyTime ==
    \A id \in DOMAIN store, secret \in Strings :
        LET e == store[id] IN
        /\ (Unresolved(e) /\ keccak256(secret) = e.secret_hash)
               => WithdrawResult(id, secret, e.receiver) = "Ok"
        /\ (Unresolved(e) /\ now >= e.timelock)
               => CancelResult(id, e.sender) = "Ok"
        /\ e.withdrawn
               => CancelResult(id, e.sender) = "AlreadyWithdrawn"
        /\ (e.cancelled /\ ~e.withdrawn)
               => WithdrawResult(id, secret, e.receiver) = "AlreadyCancelled"

\* C19: verify_secret returns false, never an error, when no record is
\* stored under the identifier, and otherwise exactly
\* hash(secret) = secret_hash, whatever the flags and the clock are;
\* verify_secret, get_escrow and can_cancel leave the record store and all
\* balances unchanged.
C19_Verdict ==
    /\ \A id \in Bytes, secret \in Strings :
           verify_secret(id, secret)
               = (StorageHas(store, id) /\ keccak256(secret) = store[id].secret_hash)
    /\ call.op = "verify_secret" => call.result \in {"true", "false"}

C19_ReadOnlyStep ==
    call'.op \in {"get_escrow", "verify_secret", "can_cancel"}
        => UNCHANGED <<store, balance>>

C19_VerifySecret ==
    /\ [](C19_Verdict)
    /\ [][C19_ReadOnlyStep]_vars

\* verify_secret has just answered true although every stored record is
\* resolved and the clock is past every timelock
C19_Witness ==
    /\ call = [op |-> "verify_secret", result |-> "true"]
    /\ DOMAIN store # {}
    /\ \A id \in DOMAIN store : ~Unresolved(store[id]) /\ now > store[id].timelock

(* ------------- withdraw and cancel statement by statement ------------- *)
\* The two resolving entry points split at the places where another
\* invocation could come in between: the load of the record with its
\* tests, the write of the flag, and the outbound transfer.  interleave
\* is fixed at the start: when FALSE an invocation runs from its first to
\* its last statement with nothing in between, as the host executes it.
AllIdle == \A p \in Procs : inv[p].pc = "idle"

MayRun(p) == interleave \/ \A q \in Procs \ {p} : inv[q].pc = "idle"

\* load the record and run the tests of withdraw; the local copy is kept
BeginWithdraw(p, escrow_id, secret, receiver) ==
    LET result == WithdrawResult(escrow_id, secret, receiver) IN
    /\ inv[p].pc = "idle"
    /\ MayRun(p)
    /\ IF result \in {"Ok", "Trap"}
       THEN /\ inv' = [inv EXCEPT ![p] =
                         [pc |-> "checked", op |-> "withdraw",
                          id |-> escrow_id, caller |-> receiver,
                          escrow |-> {store[escrow_id]}]]
            /\ UNCHANGED call
       ELSE /\ call' = [op |-> "withdraw", result |-> result]
            /\ UNCHANGED inv
    /\ UNCHANGED <<store, balance, now, creates, everWithdrawn, everCancelled, payouts, interleave>>

\* load the record and run the tests of cancel; the local copy is kept
BeginCancel(p, escrow_id, sender) ==
    LET result == CancelResult(escrow_id, sender) IN
    /\ inv[p].pc = "idle"
    /\ MayRun(p)
    /\ IF result \in {"Ok", "Trap"}
       THEN /\ inv' = [inv EXCEPT ![p] =
                         [pc |-> "checked", op |-> "cancel",
                          id |-> escrow_id, caller |-> sender,
                          escrow |-> {store[escrow_id]}]]
            /\ UNCHANGED call
       ELSE /\ call' = [op |-> "cancel", result |-> result]
            /\ UNCHANGED inv
    /\ UNCHANGED <<store, balance, now, creates, everWithdrawn, everCancelled, payouts, interleave>>

\* the local copy of invocation p with its flag set
Flagged(p) ==
    LET escrow == CHOOSE e \in inv[p].escrow : TRUE IN
    IF inv[p].op = "withdraw" THEN [escrow EXCEPT !.withdrawn = TRUE]
    ELSE [escrow EXCEPT !.cancelled = TRUE]

\* the record as invocation p loaded it
Loaded(p) ==
    LET escrow == CHOOSE e \in inv[p].escrow : TRUE IN
    IF inv[p].op = "withdraw" THEN [escrow EXCEPT !.withdrawn = FALSE]
    ELSE [escrow EXCEPT !.cancelled = FALSE]

\* the flag is set in the local copy only and the transfer is started
\* before the record is written back
CommitAfterTransfer(p) ==
    /\ inv[p].pc = "checked"
    /\ inv' = [inv EXCEPT ![p] = [@ EXCEPT !.pc = "committed", !.escrow = {Flagged(p)}]]
    /\ UNCHANGED <<store, balance, now, call, creates, everWithdrawn, everCancelled, payouts, interleave>>

\* escrow.withdrawn = true (escrow.cancelled = true) and storage set
Commit(p) ==
    /\ inv[p].pc = "checked"
    /\ store' = StorageSet(store, inv[p].id, Flagged(p))
    /\ inv' = [inv EXCEPT ![p] = [@ EXCEPT !.pc = "committed", !.escrow = {Flagged(p)}]]
    /\ UNCHANGED <<balance, now, call, creates, everWithdrawn, everCancelled, payouts, interleave>>

\* token_client.transfer out of the contract: it goes through and the
\* invocation returns Ok, or it traps and the host undoes the invocation's
\* write of the record
Transfer(p) ==
    LET escrow == CHOOSE e \in inv[p].escrow : TRUE
        id == inv[p].id
        to == inv[p].caller
    IN  /\ inv[p].pc = "committed"
        /\ inv' = [inv EXCEPT ![p] = Idle]
        /\ IF CanTransfer(balance[escrow.token_address], LEDGER, to, escrow.amount)
           THEN /\ balance' = [balance EXCEPT ![escrow.token_address] =
                                 TokenTransfer(@, LEDGER, to, escrow.amount)]
                /\ payouts' = [payouts EXCEPT ![id] = @ + 1]
                /\ call' = [op |-> inv[p].op, result |-> "Ok"]
                /\ everWithdrawn' = IF inv[p].op = "withdraw" THEN everWithdrawn \cup {id} ELSE everWithdrawn
                /\ everCancelled' = IF inv[p].op = "cancel" THEN everCancelled \cup {id} ELSE everCancelled
                /\ UNCHANGED store
           ELSE /\ store' = StorageSet(store, id, Loaded(p))
                /\ call' = [op |-> inv[p].op, result |-> "Trap"]
                /\ UNCHANGED <<balance, payouts, everWithdrawn, everCancelled>>
        /\ UNCHANGED <<now, creates, interleave>>

\* create_escrow as one transaction, by alice or by the contract itself,
\* in favour of bob; a new record has had no payout
CreateStep ==
    /\ interleave \/ AllIdle
    /\ \E sender \in {"alice", LEDGER}, order_id \in Strings :
           create_escrow(sender, "bob", 1, keccak256("a"), 1, "usdc", order_id)
    /\ payouts' = IF call'.result \in Bytes
                  THEN [payouts EXCEPT ![call'.result] = 0] ELSE payouts
    /\ UNCHANGED <<inv, interleave>>

BeginWithdrawStep ==
    \E p \in Procs, escrow_id \in Bytes, receiver \in {"alice", "bob"} :
        BeginWithdraw(p, escrow_id, "a", receiver)

BeginCancelStep ==
    \E p \in Procs, escrow_id \in Bytes, sender \in {"alice", LEDGER} :
        BeginCancel(p, escrow_id, sender)

CommitStep == \E p \in Procs : Commit(p)

TransferStep == \E p \in Procs : Transfer(p)

TickStep == (interleave \/ AllIdle) /\ Tick

InitSteps ==
    /\ inv = [p \in Procs |-> Idle]
    /\ payouts = [id \in Bytes |-> 0]
    /\ interleave \in BOOLEAN
    /\ store = <<>>
    /\ balance = [t \in Tokens |->
                    [a \in Address |-> IF a = "alice" THEN 2 ELSE 0]]
    /\ now = 0
    /\ call = [op |-> "none", result |-> "-"]
    /\ creates = 0
    /\ everWithdrawn = {}
    /\ everCancelled = {}

NextSteps ==
    \/ CreateStep
    \/ BeginWithdrawStep
    \/ BeginCancelStep
    \/ CommitStep
    \/ TransferStep
    \/ TickStep

SpecSteps == InitSteps /\ [][NextSteps]_vars

\* C16: if two resolving calls on one identifier may interleave between
\* their load-and-test of the flags and their write of the flag, the
\* record's amount can leave custody twice; when every call runs as one
\* indivisible step no record is ever paid out more than once.
C16_AtomicNoDoublePayout ==
    ~interleave => \A id \in Bytes : payouts[id] <= 1

\* interleaving allowed, and the record stored at some identifier has been
\* paid out twice
C16_Witness ==
    /\ interleave
    /\ \E id \in DOMAIN store : payouts[id] >= 2 /\ ~Unresolved(store[id])

\* C17 as stated: the flag is persisted before the outbound transfer
\* starts, so whenever a transfer is pending the stored record is resolved;
\* a transfer that fails leaves the record marked resolved with the funds
\* still in custody, and the record is never paid out a second time.
C17_PendingIsResolved ==
    ~interleave =>
        \A p \in Procs :
            inv[p].pc = "committed" =>
                /\ StorageHas(store, inv[p].id)
                /\ ~Unresolved(store[inv[p].id])

C17_FailedTransfer(p) ==
    /\ ~interleave
    /\ inv[p].pc = "committed"
    /\ inv'[p].pc = "idle"
    /\ call'.result = "Trap"

C17_FailedStaysResolved ==
    \A p \in Procs :
        C17_FailedTransfer(p) =>
            /\ ~Unresolved(store'[inv[p].id])
            /\ balance' = balance

C17_FailedRollsBack ==
    \A p \in Procs :
        C17_FailedTransfer(p) =>
            /\ store'[inv[p].id] = Loaded(p)
            /\ Unresolved(store'[inv[p].id])
            /\ balance' = balance
            /\ payouts' = payouts

LiveCreate ==
    \E sender \in {"alice", LEDGER}, order_id \in Strings :
        /\ ~StorageHas(store, keccak256(order_id))
        /\ create_escrow(sender, "bob", 1, keccak256("a"), 1, "usdc", order_id)
        /\ UNCHANGED steps

SenderCancel(escrow_id) ==
    /\ StorageHas(store, escrow_id)
    /\ cancel(escrow_id, store[escrow_id].sender)
    /\ UNCHANGED steps

NextLive ==
    \/ LiveCreate
    \/ WithdrawCall
    \/ CancelCall
    \/ Tick

SpecLive ==
    /\ Init
    /\ [][NextLive]_vars
    /\ WF_vars(Tick)
    /\ \A escrow_id \in Bytes : WF_vars(SenderCancel(escrow_id))

\* C20: no escrow stays open for ever: with the clock advancing, the
\* recorded sender retrying cancel and no order_id used twice, every stored
\* record is eventually withdrawn or cancelled, and eventually all stored
\* records are resolved with nothing left in the contract's custody.
C20_EveryRecordResolved ==
    \A id \in Bytes :
        StorageHas(store, id)
            ~> (StorageHas(store, id) /\ ~Unresolved(store[id]))

C20_CustodyDrains ==
    (DOMAIN store # {})
        ~> ( /\ \A id \in DOMAIN store : ~Unresolved(store[id])
             /\ \A t \in Tokens : balance[t][LEDGER] = 0 )

C20_NoEscrowOpenForever ==
    /\ C20_EveryRecordResolved
    /\ C20_CustodyDrains

====
